---- MODULE Spec2Model ----
(***************************************************************************)
(* Dialogue engine of the mental-health chat endpoint: the /chat handler   *)
(* of app.py (Flask, threaded) and main.py (FastAPI), its text classifiers,*)
(* the PHQ-9 questionnaire state machine and the in-memory session store.  *)
(* Text is modelled as sequences of one-character strings so that strip,   *)
(* lower, substring search and word-boundary matching are computed.        *)
(***************************************************************************)
EXTENDS Integers, Sequences, FiniteSets, TLC

VARIABLES SESSIONS, request, response, pc, frame, main_SESSIONS, main_response

vars == <<SESSIONS, request, response, pc, frame, main_SESSIONS, main_response>>

\* The store and the last answer of the main.py (FastAPI) process.
main_vars == <<main_SESSIONS, main_response>>

NumThreads == 3

(***************************************************************************)
(* Text primitives: str.strip, str.lower, `in`, re.search with \b          *)
(***************************************************************************)
UpperChars ==
    <<"A","B","C","D","E","F","G","H","I","J","K","L","M",
      "N","O","P","Q","R","S","T","U","V","W","X","Y","Z">>

LowerChars ==
    <<"a","b","c","d","e","f","g","h","i","j","k","l","m",
      "n","o","p","q","r","s","t","u","v","w","x","y","z">>

DigitChars == {"0","1","2","3","4","5","6","7","8","9"}

WhitespaceChars == {" ", "\t", "\n", "\r"}

LowerChar(c) ==
    IF \E i \in 1..Len(UpperChars) : UpperChars[i] = c
    THEN LowerChars[CHOOSE i \in 1..Len(UpperChars) : UpperChars[i] = c]
    ELSE c

Lower(text) == [i \in 1..Len(text) |-> LowerChar(text[i])]

Strip(text) ==
    LET keep == {i \in 1..Len(text) : text[i] \notin WhitespaceChars}
    IN IF keep = {} THEN <<>>
       ELSE LET first == CHOOSE i \in keep : \A j \in keep : i <= j
                last  == CHOOSE i \in keep : \A j \in keep : j <= i
            IN SubSeq(text, first, last)

IsWordChar(c) ==
    \/ \E i \in 1..Len(LowerChars) : LowerChars[i] = c
    \/ \E i \in 1..Len(UpperChars) : UpperChars[i] = c
    \/ c \in DigitChars
    \/ c = "_"

OccursAt(pat, text, i) ==
    /\ i >= 1
    /\ i + Len(pat) - 1 <= Len(text)
    /\ \A j \in 1..Len(pat) : text[i + j - 1] = pat[j]

Contains(pat, text) ==
    \E i \in 1..(Len(text) + 1) : OccursAt(pat, text, i)

WordSearch(pat, text) ==
    \E i \in 1..Len(text) :
        /\ OccursAt(pat, text, i)
        /\ (i = 1 \/ ~IsWordChar(text[i - 1]))
        /\ (i + Len(pat) - 1 = Len(text) \/ ~IsWordChar(text[i + Len(pat)]))

(***************************************************************************)
(* Pattern tables                                                          *)
(***************************************************************************)
CRISIS_PATTERNS ==
    << {<<"s","u","i","c","i","d","e">>, <<"s","u","i","c","i","d","a","l">>},
       {<<"k","i","l","l"," ","m","y","s","e","l","f">>},
       {<<"w","a","n","t"," ","t","o"," ","d","i","e">>},
       {<<"s","e","l","f","h","a","r","m">>,
        <<"s","e","l","f","-","h","a","r","m">>,
        <<"s","e","l","f"," ","h","a","r","m">>},
       {<<"e","n","d"," ","m","y"," ","l","i","f","e">>} >>

greetings ==
    << <<"h","e","l","l","o">>,
       <<"h","i">>,
       <<"h","e","y">>,
       <<"g","o","o","d"," ","m","o","r","n","i","n","g">>,
       <<"g","o","o","d"," ","a","f","t","e","r","n","o","o","n">>,
       <<"g","o","o","d"," ","e","v","e","n","i","n","g">> >>

MOTIVATIONAL_TRIGGERS ==
    << <<"m","o","t","i","v","a","t","e","d">>,
       <<"n","e","e","d"," ","m","o","t","i","v","a","t","i","o","n">>,
       <<"e","n","c","o","u","r","a","g","e"," ","m","e">>,
       <<"f","e","e","l","i","n","g"," ","d","o","w","n">>,
       <<"d","i","s","c","o","u","r","a","g","e","d">>,
       <<"h","e","l","p"," ","m","e"," ","s","t","a","y"," ","p","o","s","i","t","i","v","e">>,
       <<"i","'","m"," ","s","t","r","u","g","g","l","i","n","g">>,
       <<"c","a","n","'","t"," ","k","e","e","p"," ","g","o","i","n","g">>,
       <<"l","o","s","t"," ","h","o","p","e">> >>

screening_keywords ==
    << <<"s","c","r","e","e","n">>,
       <<"a","s","s","e","s","s","m","e","n","t">>,
       <<"t","e","s","t">>,
       <<"p","h","q">>,
       <<"d","e","p","r","e","s","s","i","o","n">> >>

NotAtAll == <<"n","o","t"," ","a","t"," ","a","l","l">>

SeveralDays == <<"s","e","v","e","r","a","l"," ","d","a","y","s">>

MoreThanHalf == <<"m","o","r","e"," ","t","h","a","n"," ","h","a","l","f"," ","t","h","e"," ","d","a","y","s">>

NearlyEveryDay == <<"n","e","a","r","l","y"," ","e","v","e","r","y"," ","d","a","y">>

SCORE_MAP ==
    (NotAtAll :> 0) @@ (SeveralDays :> 1) @@ (MoreThanHalf :> 2) @@ (NearlyEveryDay :> 3)

MOTIVATIONAL_MESSAGES ==
    << "Believe in yourself! Every day is a new opportunity to grow.",
       "You are stronger than you think. Keep going!",
       "Small steps lead to big changes. You've got this!",
       "Remember, tough times don't last, but tough people do.",
       "Every challenge is a chance to become a better version of yourself.",
       "Your feelings are valid. Take it one moment at a time.",
       "You have the power to overcome things even when it feels hard." >>

friendly_replies ==
    << "Hello! How can I support you today?",
       "Hi there! I'm here to help you with mental health support.",
       "Hey! Feel free to share how you're feeling." >>

PHQ9_QUESTIONS ==
    << "little interest or pleasure in doing things?",
       "felt down, depressed, or hopeless?",
       "trouble falling or staying asleep, or sleeping too much?",
       "felt tired or had little energy?",
       "poor appetite or overeating?",
       "felt bad about yourself?",
       "trouble concentrating on things?",
       "moving or speaking so slowly, or being fidgety or restless?",
       "thoughts that you would be better off dead or of hurting yourself?" >>

(***************************************************************************)
(* Classifiers                                                             *)
(***************************************************************************)
detect_crisis(text) ==
    LET lowered == Lower(text)
    IN \E p \in 1..Len(CRISIS_PATTERNS) :
           \E alt \in CRISIS_PATTERNS[p] : WordSearch(alt, lowered)

is_greeting(text) ==
    LET lowered == Lower(text)
    IN \E g \in 1..Len(greetings) : WordSearch(greetings[g], lowered)

is_motivational(lowered) ==
    \E k \in 1..Len(MOTIVATIONAL_TRIGGERS) : Contains(MOTIVATIONAL_TRIGGERS[k], lowered)

is_screening_start(lowered) ==
    \E k \in 1..Len(screening_keywords) : Contains(screening_keywords[k], lowered)

(***************************************************************************)
(* Inputs: request bodies                                                  *)
(***************************************************************************)
MsgEmpty == <<>>

MsgWantToDie == <<"I"," ","w","a","n","t"," ","t","o"," ","d","i","e">>

MsgSelfHarmTest == <<"S","e","l","f","-","H","a","r","m"," ","t","e","s","t">>

MsgSuicides == <<"s","u","i","c","i","d","e","s">>

MsgHi == <<"h","i">>

MsgThis == <<"t","h","i","s">>

MsgHeyLostHope == <<"h","e","y",","," ","l","o","s","t"," ","h","o","p","e">>

MsgDemotivated == <<"d","e","m","o","t","i","v","a","t","e","d">>

MsgHiTest == <<"h","i"," ","t","e","s","t">>

MsgDiscouragedPhq == <<"d","i","s","c","o","u","r","a","g","e","d"," ","p","h","q">>

MsgPhq == <<"p","h","q">>

MsgContest == <<"c","o","n","t","e","s","t">>

MsgNotAtAllRaw == <<" ","N","o","t"," ","A","t"," ","A","l","l"," ">>

MsgNearlyEveryDay == <<"n","e","a","r","l","y"," ","e","v","e","r","y"," ","d","a","y">>

MsgSeveralDays == <<"s","e","v","e","r","a","l"," ","d","a","y","s">>

MsgMoreThanHalf == <<"m","o","r","e"," ","t","h","a","n"," ","h","a","l","f"," ","t","h","e"," ","d","a","y","s">>

MsgNotAtAllDot == <<"n","o","t"," ","a","t"," ","a","l","l",".">>

Messages ==
    { MsgEmpty, MsgWantToDie, MsgSelfHarmTest, MsgSuicides, MsgHi, MsgThis,
      MsgHeyLostHope, MsgDemotivated, MsgHiTest, MsgDiscouragedPhq, MsgPhq,
      MsgContest, MsgNotAtAllRaw, MsgNearlyEveryDay, MsgSeveralDays,
      MsgMoreThanHalf, MsgNotAtAllDot }

\* Message set of the single-session specification: every intent class, two answer tokens.
DialogueMessages ==
    Messages \ { MsgSeveralDays, MsgMoreThanHalf }

\* Message set of the scoring specification: a screening start and the four answer tokens.
ScoringMessages ==
    { MsgPhq, MsgNotAtAllRaw, MsgSeveralDays, MsgMoreThanHalf, MsgNearlyEveryDay }

Absent == ""

UuidPool == { "uuid-1", "uuid-2" }

GeneratorOk == [raises |-> FALSE, text |-> <<" ","I"," ","h","e","a","r"," ","y","o","u",".","\n">>]

GeneratorRaises == [raises |-> TRUE, text |-> <<>>]

GeneratorOutcomes == { GeneratorOk, GeneratorRaises }

(***************************************************************************)
(* Session store and reply descriptors                                     *)
(***************************************************************************)
\* phq9_answers_id is the identity of the list object bound to "phq9_answers":
\* two sessions with the same identity hold the same list, and an append shows in both.
NewSession ==
    [ phq9_step |-> 0,
      phq9_answers |-> <<>>,
      phq9_answers_id |-> 0,
      screening_in_progress |-> FALSE,
      escalated |-> FALSE ]

\* The identity of a list created by evaluating [] : not that of a list another session holds.
fresh_list(store, session_id) ==
    LET held == { store[k].phq9_answers_id : k \in DOMAIN store \ {session_id} }
    IN CHOOSE n \in 0..Cardinality(held) :
           n \notin held /\ \A m \in 0..Cardinality(held) : m \notin held => n <= m

\* Mutation: every session is built from one module-level template and shares its list.
default_session_template(store, session_id) == NewSession

\* The dict literal of lines 110-115, evaluated by the call: its [] is a new list.
default_session(store, session_id) ==
    [NewSession EXCEPT !.phq9_answers_id = fresh_list(store, session_id)]

\* Mutation: the default is stored on every call (plain assignment instead of setdefault).
setdefault_overwrites(store, key, default) ==
    [ k \in DOMAIN store \cup {key} |-> IF k = key THEN default ELSE store[k] ]

setdefault(store, key, default) ==
    IF key \in DOMAIN store THEN store ELSE store @@ (key :> default)

\* list.append on the list of session_id, seen through every other session holding that list.
append_to_aliases(store, session_id, answer) ==
    [ k \in DOMAIN store |->
        IF k # session_id /\ store[k].phq9_answers_id = store[session_id].phq9_answers_id
        THEN [store[k] EXCEPT !.phq9_answers = Append(@, answer)]
        ELSE store[k] ]

ResolveSessionId(session_id_in) ==
    IF session_id_in = Absent THEN UuidPool \ DOMAIN SESSIONS ELSE { session_id_in }

NoScore == -1

Reply(kind, text, generated, question, score, severity) ==
    [ kind |-> kind, text |-> text, generated |-> generated,
      question |-> question, score |-> score, severity |-> severity ]

CrisisReply ==
    Reply("crisis", "I'm truly sorry you're feeling this way. Please contact a crisis helpline immediately.",
          <<>>, "", NoScore, "")

MotivationalReply(i) == Reply("motivational", MOTIVATIONAL_MESSAGES[i], <<>>, "", NoScore, "")

GreetingReply(i) == Reply("greeting", friendly_replies[i], <<>>, "", NoScore, "")

StartReply(question) ==
    Reply("start", "Let's start the PHQ-9 depression screening. / Please answer with: ...",
          <<>>, question, NoScore, "")

GeneralReply(generated) == Reply("general", "", generated, "", NoScore, "")

RepromptReply(question) ==
    Reply("reprompt", "Please answer with one of the following only: ...", <<>>, question, NoScore, "")

NextQuestionReply(question) ==
    Reply("next", "Please answer with: ...", <<>>, question, NoScore, "")

CompletionReply(total_score, severity) ==
    Reply("complete", "Thank you for completing the PHQ-9 screening. / not a diagnosis / coping strategies?",
          <<>>, "", total_score, severity)

jsonify(reply, escalate, session_id) ==
    [ status |-> 200, reply |-> reply, escalate |-> escalate, session_id |-> session_id ]

\* An exception that leaves the handler: the transport answers 500 without a reply descriptor.
Unhandled(exception, session_id) ==
    [ status |-> 500, reply |-> Reply(exception, "", <<>>, "", NoScore, ""),
      escalate |-> FALSE, session_id |-> session_id ]

NoResponse ==
    [ status |-> 0, reply |-> Reply("none", "", <<>>, "", NoScore, ""),
      escalate |-> FALSE, session_id |-> Absent ]

NoRequest == [ message |-> <<>>, session_id |-> Absent ]

(***************************************************************************)
(* Scoring                                                                 *)
(***************************************************************************)
ScoreOf(ans) == IF ans \in DOMAIN SCORE_MAP THEN SCORE_MAP[ans] ELSE 0

\* Mutation: the sum leaves out the last answer.
RECURSIVE SumScores_short(_)
SumScores_short(answers) ==
    IF Len(answers) <= 1 THEN 0
    ELSE ScoreOf(Head(answers)) + SumScores_short(Tail(answers))

RECURSIVE SumScores(_)
SumScores(answers) ==
    IF answers = <<>> THEN 0
    ELSE ScoreOf(Head(answers)) + SumScores(Tail(answers))

\* Mutation: the band boundaries are exclusive.
Severity_exclusive(total_score) ==
    IF total_score < 4 THEN "minimal or no depression"
    ELSE IF total_score < 9 THEN "mild depression symptoms"
    ELSE IF total_score < 14 THEN "moderate depression symptoms"
    ELSE IF total_score < 19 THEN "moderately severe depression symptoms"
    ELSE "severe depression symptoms"

Severity(total_score) ==
    IF total_score <= 4 THEN "minimal or no depression"
    ELSE IF total_score <= 9 THEN "mild depression symptoms"
    ELSE IF total_score <= 14 THEN "moderate depression symptoms"
    ELSE IF total_score <= 19 THEN "moderately severe depression symptoms"
    ELSE "severe depression symptoms"

\* Mutation: the list is indexed from one.
QuestionAt_one_based(i) ==
    IF i >= 1 THEN PHQ9_QUESTIONS[i] ELSE PHQ9_QUESTIONS[Len(PHQ9_QUESTIONS) + i]

\* PHQ9_QUESTIONS[i] with Python list indexing (0-based, negative from the end).
IndexInRange(i) == i \in (0 - Len(PHQ9_QUESTIONS))..(Len(PHQ9_QUESTIONS) - 1)

QuestionAt(i) ==
    IF i >= 0 THEN PHQ9_QUESTIONS[i + 1] ELSE PHQ9_QUESTIONS[Len(PHQ9_QUESTIONS) + i + 1]

(***************************************************************************)
(* The /chat handler, run to completion (one request at a time)            *)
(***************************************************************************)
Threads == 1..NumThreads

IdleFrame ==
    [ message |-> <<>>, session_id_in |-> Absent, session_id |-> Absent,
      list_current |-> FALSE, step_read |-> 0, total_score |-> NoScore ]

Result(store, resp) == [ SESSIONS |-> store, response |-> resp ]

\* Mutation: the greeting check is not restricted to idle sessions.
select_branch_greets_always(screening_in_progress, user_message) ==
    LET user_message_lower == Lower(user_message)
    IN IF detect_crisis(user_message) THEN "crisis"
       ELSE IF ~screening_in_progress /\ is_motivational(user_message_lower) THEN "motivational"
       ELSE IF is_greeting(user_message) THEN "greeting"
       ELSE IF ~screening_in_progress
            THEN IF is_screening_start(user_message_lower) THEN "start" ELSE "general"
       ELSE IF user_message_lower \notin DOMAIN SCORE_MAP THEN "invalid_answer"
       ELSE "answer"

\* Mutation: the greeting check precedes the motivational check.
select_branch_greeting_first(screening_in_progress, user_message) ==
    LET user_message_lower == Lower(user_message)
    IN IF detect_crisis(user_message) THEN "crisis"
       ELSE IF ~screening_in_progress /\ is_greeting(user_message) THEN "greeting"
       ELSE IF ~screening_in_progress /\ is_motivational(user_message_lower) THEN "motivational"
       ELSE IF ~screening_in_progress
            THEN IF is_screening_start(user_message_lower) THEN "start" ELSE "general"
       ELSE IF user_message_lower \notin DOMAIN SCORE_MAP THEN "invalid_answer"
       ELSE "answer"

\* The priority cascade: which numbered section of the handler answers the message.
select_branch(screening_in_progress, user_message) ==
    LET user_message_lower == Lower(user_message)
    IN IF detect_crisis(user_message) THEN "crisis"
       ELSE IF ~screening_in_progress /\ is_motivational(user_message_lower) THEN "motivational"
       ELSE IF ~screening_in_progress /\ is_greeting(user_message) THEN "greeting"
       ELSE IF ~screening_in_progress
            THEN IF is_screening_start(user_message_lower) THEN "start" ELSE "general"
       ELSE IF user_message_lower \notin DOMAIN SCORE_MAP THEN "invalid_answer"
       ELSE "answer"

\* Mutation: a crisis utterance abandons the questionnaire.
crisis_branch_aborts(store, session_id) ==
    Result([store EXCEPT ![session_id].escalated = TRUE,
                         ![session_id].screening_in_progress = FALSE,
                         ![session_id].phq9_step = 0,
                         ![session_id].phq9_answers = <<>>],
           jsonify(CrisisReply, TRUE, session_id))

\* Mutation: the crisis utterance is also consumed as an answer.
crisis_branch_advances(store, session_id) ==
    Result([store EXCEPT ![session_id].escalated = TRUE,
                         ![session_id].phq9_step = @ + 1],
           jsonify(CrisisReply, TRUE, session_id))

crisis_branch(store, session_id) ==
    Result([store EXCEPT ![session_id].escalated = TRUE],
           jsonify(CrisisReply, TRUE, session_id))

motivational_branch(store, session_id, choice) ==
    Result(store, jsonify(MotivationalReply(choice), FALSE, session_id))

\* Mutation: the index drawn for the greeting is kept in the session.
greeting_branch_records(store, session_id, choice) ==
    Result([store EXCEPT ![session_id].phq9_step = choice],
           jsonify(GreetingReply(choice), FALSE, session_id))

greeting_branch(store, session_id, choice) ==
    Result(store, jsonify(GreetingReply(choice), FALSE, session_id))

\* Mutation: the questionnaire starts at the second question.
start_branch_skips(store, session_id) ==
    Result([store EXCEPT ![session_id].screening_in_progress = TRUE,
                         ![session_id].phq9_step = 1,
                         ![session_id].phq9_answers = <<>>,
                         ![session_id].phq9_answers_id = fresh_list(store, session_id)],
           jsonify(StartReply(QuestionAt(1)), FALSE, session_id))

start_branch(store, session_id) ==
    Result([store EXCEPT ![session_id].screening_in_progress = TRUE,
                         ![session_id].phq9_step = 0,
                         ![session_id].phq9_answers = <<>>,
                         ![session_id].phq9_answers_id = fresh_list(store, session_id)],
           jsonify(StartReply(QuestionAt(0)), FALSE, session_id))

\* Mutation: the reply reports the session's sticky flag.
general_branch_sticky(store, session_id, generated) ==
    Result(store,
           IF generated.raises THEN Unhandled("GeneratorError", session_id)
           ELSE jsonify(GeneralReply(Strip(generated.text)), store[session_id].escalated, session_id))

general_branch(store, session_id, generated) ==
    Result(store,
           IF generated.raises THEN Unhandled("GeneratorError", session_id)
           ELSE jsonify(GeneralReply(Strip(generated.text)), FALSE, session_id))

\* Mutation: an unrecognised answer still advances to the next question.
invalid_answer_branch_advances(store, session_id) ==
    LET step == store[session_id].phq9_step + 1
    IN Result([store EXCEPT ![session_id].phq9_step = step],
              IF IndexInRange(step)
              THEN jsonify(RepromptReply(QuestionAt(step)), FALSE, session_id)
              ELSE Unhandled("IndexError", session_id))

invalid_answer_branch(store, session_id) ==
    LET step == store[session_id].phq9_step
    IN Result(store,
              IF IndexInRange(step)
              THEN jsonify(RepromptReply(QuestionAt(step)), FALSE, session_id)
              ELSE Unhandled("IndexError", session_id))

\* Mutation: the answer is stored but the step is not advanced.
save_answer_no_step(session, answer) ==
    [session EXCEPT !.phq9_answers = Append(@, answer)]

save_answer(session, answer) ==
    [session EXCEPT !.phq9_answers = Append(@, answer), !.phq9_step = @ + 1]

\* Mutation: the reset forgets the step.
reset_screening_keeps_step(session) ==
    [session EXCEPT !.screening_in_progress = FALSE, !.phq9_answers = <<>>]

\* Mutation: the reset restores the whole default session.
reset_screening_clears_all(session) == NewSession

reset_screening(session) ==
    [session EXCEPT !.screening_in_progress = FALSE, !.phq9_step = 0, !.phq9_answers = <<>>]

answer_branch(store, session_id, answer) ==
    LET saved == save_answer(store[session_id], answer)
        appended == append_to_aliases(store, session_id, answer)
    IN IF saved.phq9_step >= Len(PHQ9_QUESTIONS)
       THEN LET total_score == SumScores(saved.phq9_answers)
            IN Result([appended EXCEPT ![session_id] =
                          [reset_screening(saved) EXCEPT
                              !.phq9_answers_id = fresh_list(store, session_id)]],
                      jsonify(CompletionReply(total_score, Severity(total_score)), FALSE, session_id))
       ELSE Result([appended EXCEPT ![session_id] = saved],
                   IF IndexInRange(saved.phq9_step)
                   THEN jsonify(NextQuestionReply(QuestionAt(saved.phq9_step)), FALSE, session_id)
                   ELSE Unhandled("IndexError", session_id))

\* The handler's text processing of each request body, evaluated once per message:
\* the stripped message, its lower-cased copy and the section selected in either state.
Parsed ==
    [ message \in Messages |->
        LET user_message == Strip(message)
        IN [ user_message |-> user_message,
             user_message_lower |-> Lower(user_message),
             branch |-> [ screening \in BOOLEAN |-> select_branch(screening, user_message) ] ] ]

\* What one call draws from outside: the two random.choice indexes and the generator's outcome.
NoDraw == [ motivational |-> 1, greeting |-> 1, generated |-> GeneratorOk ]

draws_for(branch) ==
    IF branch = "motivational"
    THEN { [NoDraw EXCEPT !.motivational = i] : i \in 1..Len(MOTIVATIONAL_MESSAGES) }
    ELSE IF branch = "greeting"
    THEN { [NoDraw EXCEPT !.greeting = i] : i \in 1..Len(friendly_replies) }
    ELSE IF branch = "general"
    THEN { [NoDraw EXCEPT !.generated = g] : g \in GeneratorOutcomes }
    ELSE { NoDraw }

\* The handler's result for one request and one draw.
chat_result(store0, session_id, message, draw) ==
    LET store == setdefault(store0, session_id, default_session(store0, session_id))
        branch == Parsed[message].branch[store[session_id].screening_in_progress]
        answer == Parsed[message].user_message_lower
    IN IF branch = "crisis" THEN crisis_branch(store, session_id)
       ELSE IF branch = "motivational" THEN motivational_branch(store, session_id, draw.motivational)
       ELSE IF branch = "greeting" THEN greeting_branch(store, session_id, draw.greeting)
       ELSE IF branch = "start" THEN start_branch(store, session_id)
       ELSE IF branch = "general" THEN general_branch(store, session_id, draw.generated)
       ELSE IF branch = "invalid_answer" THEN invalid_answer_branch(store, session_id)
       ELSE answer_branch(store, session_id, answer)

\* All results the handler can produce for one request (one per random choice / generator outcome).
chat_results(store0, session_id, message) ==
    LET store == setdefault(store0, session_id, default_session(store0, session_id))
        branch == Parsed[message].branch[store[session_id].screening_in_progress]
    IN { chat_result(store0, session_id, message, draw) : draw \in draws_for(branch) }

chat(session_id_in, message) ==
    \E session_id \in ResolveSessionId(session_id_in) :
        \E result \in chat_results(SESSIONS, session_id, message) :
            /\ request' = [ message |-> message, session_id |-> session_id_in ]
            /\ SESSIONS' = result.SESSIONS
            /\ response' = result.response
            /\ UNCHANGED <<pc, frame, main_SESSIONS, main_response>>

(***************************************************************************)
(* The /chat handler of app.py under the threaded server: one thread per   *)
(* request, one step per read or write of the shared session dict.         *)
(* Computation on locals is folded into the preceding shared access.       *)
(***************************************************************************)
Goto(t, label) == pc' = [pc EXCEPT ![t] = label]

\* return jsonify(...): the thread's request is answered.
Return(t, resp) ==
    /\ pc' = [pc EXCEPT ![t] = "done"]
    /\ request' = [ message |-> frame[t].message, session_id |-> frame[t].session_id_in ]
    /\ response' = resp

\* session["phq9_answers"] = []: threads that already loaded the old list keep a detached one.
Rebound(t) ==
    [ u \in Threads |->
        IF u # t /\ pc[u] = "append_answer" /\ frame[u].session_id = frame[t].session_id
        THEN [frame[u] EXCEPT !.list_current = FALSE]
        ELSE frame[u] ]

\* lines 105-107: the request body is read and the session id resolved.
receive(t, session_id_in, message) ==
    /\ pc[t] = "idle"
    /\ \E session_id \in ResolveSessionId(session_id_in) :
          frame' = [frame EXCEPT ![t] = [IdleFrame EXCEPT !.message = message,
                                                          !.session_id_in = session_id_in,
                                                          !.session_id = session_id]]
    /\ Goto(t, "get_session")
    /\ UNCHANGED <<SESSIONS, request, response>>
    /\ UNCHANGED main_vars

\* lines 110-120: SESSIONS.setdefault, then the crisis test on the message.
get_session(t) ==
    /\ pc[t] = "get_session"
    /\ SESSIONS' = setdefault(SESSIONS, frame[t].session_id,
                            default_session(SESSIONS, frame[t].session_id))
    /\ IF Parsed[frame[t].message].branch[TRUE] = "crisis"
       THEN Goto(t, "set_escalated")
       ELSE Goto(t, "check_motivational")
    /\ UNCHANGED <<request, response, frame>>
    /\ UNCHANGED main_vars

\* lines 121-129
set_escalated(t) ==
    /\ pc[t] = "set_escalated"
    /\ SESSIONS' = [SESSIONS EXCEPT ![frame[t].session_id].escalated = TRUE]
    /\ Return(t, jsonify(CrisisReply, TRUE, frame[t].session_id))
    /\ UNCHANGED frame
    /\ UNCHANGED main_vars

\* lines 132-139: reads screening_in_progress
check_motivational(t) ==
    /\ pc[t] = "check_motivational"
    /\ IF /\ ~SESSIONS[frame[t].session_id].screening_in_progress
          /\ is_motivational(Parsed[frame[t].message].user_message_lower)
       THEN \E i \in 1..Len(MOTIVATIONAL_MESSAGES) :
                Return(t, jsonify(MotivationalReply(i), FALSE, frame[t].session_id))
       ELSE Goto(t, "check_greeting") /\ UNCHANGED <<request, response>>
    /\ UNCHANGED <<SESSIONS, frame>>
    /\ UNCHANGED main_vars

\* lines 142-152: reads screening_in_progress
check_greeting(t) ==
    /\ pc[t] = "check_greeting"
    /\ IF /\ ~SESSIONS[frame[t].session_id].screening_in_progress
          /\ is_greeting(Parsed[frame[t].message].user_message)
       THEN \E i \in 1..Len(friendly_replies) :
                Return(t, jsonify(GreetingReply(i), FALSE, frame[t].session_id))
       ELSE Goto(t, "check_screening") /\ UNCHANGED <<request, response>>
    /\ UNCHANGED <<SESSIONS, frame>>
    /\ UNCHANGED main_vars

\* lines 155-157, 173-189 and 192-193: reads screening_in_progress, then works on locals.
check_screening(t) ==
    /\ pc[t] = "check_screening"
    /\ IF ~SESSIONS[frame[t].session_id].screening_in_progress
       THEN IF is_screening_start(Parsed[frame[t].message].user_message_lower)
            THEN Goto(t, "start_flag") /\ UNCHANGED <<request, response>>
            ELSE \E g \in GeneratorOutcomes :
                     Return(t, general_branch(SESSIONS, frame[t].session_id, g).response)
       ELSE /\ IF Parsed[frame[t].message].user_message_lower \notin DOMAIN SCORE_MAP
               THEN Goto(t, "reprompt")
               ELSE Goto(t, "load_answers")
            /\ UNCHANGED <<request, response>>
    /\ UNCHANGED <<SESSIONS, frame>>
    /\ UNCHANGED main_vars

\* line 158
start_flag(t) ==
    /\ pc[t] = "start_flag"
    /\ SESSIONS' = [SESSIONS EXCEPT ![frame[t].session_id].screening_in_progress = TRUE]
    /\ Goto(t, "start_step")
    /\ UNCHANGED <<request, response, frame>>
    /\ UNCHANGED main_vars

\* line 159
start_step(t) ==
    /\ pc[t] = "start_step"
    /\ SESSIONS' = [SESSIONS EXCEPT ![frame[t].session_id].phq9_step = 0]
    /\ Goto(t, "start_answers")
    /\ UNCHANGED <<request, response, frame>>
    /\ UNCHANGED main_vars

\* lines 160-170
start_answers(t) ==
    /\ pc[t] = "start_answers"
    /\ SESSIONS' = [SESSIONS EXCEPT
                        ![frame[t].session_id].phq9_answers = <<>>,
                        ![frame[t].session_id].phq9_answers_id =
                            fresh_list(SESSIONS, frame[t].session_id)]
    /\ frame' = Rebound(t)
    /\ Return(t, jsonify(StartReply(QuestionAt(0)), FALSE, frame[t].session_id))
    /\ UNCHANGED main_vars

\* lines 194-203: reads phq9_step
reprompt(t) ==
    /\ pc[t] = "reprompt"
    /\ Return(t, invalid_answer_branch(SESSIONS, frame[t].session_id).response)
    /\ UNCHANGED <<SESSIONS, frame>>
    /\ UNCHANGED main_vars

\* line 206, first half: session["phq9_answers"] is loaded
load_answers(t) ==
    /\ pc[t] = "load_answers"
    /\ frame' = [frame EXCEPT ![t].list_current = TRUE]
    /\ Goto(t, "append_answer")
    /\ UNCHANGED <<SESSIONS, request, response>>
    /\ UNCHANGED main_vars

\* line 206, second half: .append(answer) on the loaded list
append_answer(t) ==
    /\ pc[t] = "append_answer"
    /\ SESSIONS' = IF frame[t].list_current
                   THEN [append_to_aliases(SESSIONS, frame[t].session_id,
                                           Parsed[frame[t].message].user_message_lower)
                             EXCEPT ![frame[t].session_id].phq9_answers =
                                 Append(@, Parsed[frame[t].message].user_message_lower)]
                   ELSE SESSIONS
    /\ frame' = [frame EXCEPT ![t].list_current = FALSE]
    /\ Goto(t, "read_step")
    /\ UNCHANGED <<request, response>>
    /\ UNCHANGED main_vars

\* line 207, first half: session["phq9_step"] is read
read_step(t) ==
    /\ pc[t] = "read_step"
    /\ frame' = [frame EXCEPT ![t].step_read = SESSIONS[frame[t].session_id].phq9_step]
    /\ Goto(t, "write_step")
    /\ UNCHANGED <<SESSIONS, request, response>>
    /\ UNCHANGED main_vars

\* line 207, second half: the incremented value is stored
write_step(t) ==
    /\ pc[t] = "write_step"
    /\ SESSIONS' = [SESSIONS EXCEPT ![frame[t].session_id].phq9_step = frame[t].step_read + 1]
    /\ frame' = [frame EXCEPT ![t].step_read = 0]
    /\ Goto(t, "check_complete")
    /\ UNCHANGED <<request, response>>
    /\ UNCHANGED main_vars

\* line 209: reads phq9_step
check_complete(t) ==
    /\ pc[t] = "check_complete"
    /\ IF SESSIONS[frame[t].session_id].phq9_step >= Len(PHQ9_QUESTIONS)
       THEN Goto(t, "sum_answers")
       ELSE Goto(t, "next_question")
    /\ UNCHANGED <<SESSIONS, request, response, frame>>
    /\ UNCHANGED main_vars

\* lines 210-220: reads phq9_answers
sum_answers(t) ==
    /\ pc[t] = "sum_answers"
    /\ frame' = [frame EXCEPT ![t].total_score =
                     SumScores(SESSIONS[frame[t].session_id].phq9_answers)]
    /\ Goto(t, "reset_flag")
    /\ UNCHANGED <<SESSIONS, request, response>>
    /\ UNCHANGED main_vars

\* line 223
reset_flag(t) ==
    /\ pc[t] = "reset_flag"
    /\ SESSIONS' = [SESSIONS EXCEPT ![frame[t].session_id].screening_in_progress = FALSE]
    /\ Goto(t, "reset_step")
    /\ UNCHANGED <<request, response, frame>>
    /\ UNCHANGED main_vars

\* line 224
reset_step(t) ==
    /\ pc[t] = "reset_step"
    /\ SESSIONS' = [SESSIONS EXCEPT ![frame[t].session_id].phq9_step = 0]
    /\ Goto(t, "reset_answers")
    /\ UNCHANGED <<request, response, frame>>
    /\ UNCHANGED main_vars

\* lines 225-235
reset_answers(t) ==
    /\ pc[t] = "reset_answers"
    /\ SESSIONS' = [SESSIONS EXCEPT
                        ![frame[t].session_id].phq9_answers = <<>>,
                        ![frame[t].session_id].phq9_answers_id =
                            fresh_list(SESSIONS, frame[t].session_id)]
    /\ frame' = [Rebound(t) EXCEPT ![t].total_score = NoScore]
    /\ Return(t, jsonify(CompletionReply(frame[t].total_score, Severity(frame[t].total_score)),
                         FALSE, frame[t].session_id))
    /\ UNCHANGED main_vars

\* lines 237-245: reads phq9_step
next_question(t) ==
    /\ pc[t] = "next_question"
    /\ LET step == SESSIONS[frame[t].session_id].phq9_step
       IN Return(t, IF IndexInRange(step)
                    THEN jsonify(NextQuestionReply(QuestionAt(step)), FALSE, frame[t].session_id)
                    ELSE Unhandled("IndexError", frame[t].session_id))
    /\ UNCHANGED <<SESSIONS, frame>>
    /\ UNCHANGED main_vars

(***************************************************************************)
(* The /chat handler of main.py (FastAPI).  The coroutine awaits only the  *)
(* request body, so each request runs to completion on the event loop.     *)
(***************************************************************************)
\* main.py's text processing of each request body, evaluated once per message.
main_text ==
    [ message \in Messages |->
        LET user_message == Strip(message)
            user_message_lower == Lower(user_message)
        IN [ user_message_lower |-> user_message_lower,
             crisis |-> detect_crisis(user_message),
             trigger |-> \E k \in 1..Len(MOTIVATIONAL_TRIGGERS) :
                             Contains(MOTIVATIONAL_TRIGGERS[k], user_message_lower),
             greeting |-> is_greeting(user_message),
             keyword |-> \E k \in 1..Len(screening_keywords) :
                             Contains(screening_keywords[k], user_message_lower),
             in_score_map |-> user_message_lower \in DOMAIN SCORE_MAP ] ]

\* The dict a main.py branch returns, serialised by the framework.
main_return(reply, escalate, session_id) ==
    [ status |-> 200, reply |-> reply, escalate |-> escalate, session_id |-> session_id ]

\* Mutation: the second band ends before 9.
main_severity_early(total_score) ==
    IF total_score <= 4 THEN "minimal or no depression"
    ELSE IF total_score < 9 THEN "mild depression symptoms"
    ELSE IF total_score <= 14 THEN "moderate depression symptoms"
    ELSE IF total_score <= 19 THEN "moderately severe depression symptoms"
    ELSE "severe depression symptoms"

main_severity(total_score) ==
    IF total_score <= 4 THEN "minimal or no depression"
    ELSE IF total_score <= 9 THEN "mild depression symptoms"
    ELSE IF total_score <= 14 THEN "moderate depression symptoms"
    ELSE IF total_score <= 19 THEN "moderately severe depression symptoms"
    ELSE "severe depression symptoms"

main_total(answers) ==
    LET partial[i \in 0..Len(answers)] ==
            IF i = 0 THEN 0
            ELSE partial[i - 1] + (IF answers[i] \in DOMAIN SCORE_MAP THEN SCORE_MAP[answers[i]] ELSE 0)
    IN partial[Len(answers)]

\* One request and one draw, statement by statement.
main_chat(store0, session_id, message, draw) ==
    LET text == main_text[message]
        store == IF session_id \in DOMAIN store0 THEN store0
                 ELSE store0 @@ (session_id :>
                          [ phq9_step |-> 0, phq9_answers |-> <<>>,
                            phq9_answers_id |-> fresh_list(store0, session_id),
                            screening_in_progress |-> FALSE, escalated |-> FALSE ])
        session == store[session_id]
    IN IF text.crisis
       THEN [ SESSIONS |-> [store EXCEPT ![session_id].escalated = TRUE],
              response |-> main_return(CrisisReply, TRUE, session_id) ]
       ELSE IF ~session.screening_in_progress /\ text.trigger
       THEN [ SESSIONS |-> store,
              response |-> main_return(MotivationalReply(draw.motivational), FALSE, session_id) ]
       ELSE IF ~session.screening_in_progress /\ text.greeting
       THEN [ SESSIONS |-> store,
              response |-> main_return(GreetingReply(draw.greeting), FALSE, session_id) ]
       ELSE IF ~session.screening_in_progress
       THEN IF text.keyword
            THEN [ SESSIONS |-> [store EXCEPT ![session_id] =
                                   [session EXCEPT !.screening_in_progress = TRUE,
                                                   !.phq9_step = 0,
                                                   !.phq9_answers = <<>>,
                                                   !.phq9_answers_id = fresh_list(store, session_id)]],
                   response |-> main_return(StartReply(PHQ9_QUESTIONS[1]), FALSE, session_id) ]
            ELSE [ SESSIONS |-> store,
                   response |-> IF draw.generated.raises
                                THEN Unhandled("GeneratorError", session_id)
                                ELSE main_return(GeneralReply(Strip(draw.generated.text)),
                                                 FALSE, session_id) ]
       ELSE IF ~text.in_score_map
       THEN [ SESSIONS |-> store,
              response |-> IF IndexInRange(session.phq9_step)
                           THEN main_return(RepromptReply(QuestionAt(session.phq9_step)),
                                            FALSE, session_id)
                           ELSE Unhandled("IndexError", session_id) ]
       ELSE LET answers == Append(session.phq9_answers, text.user_message_lower)
                step == session.phq9_step + 1
                others == append_to_aliases(store, session_id, text.user_message_lower)
            IN IF step >= Len(PHQ9_QUESTIONS)
               THEN [ SESSIONS |-> [others EXCEPT ![session_id] =
                                      [session EXCEPT !.screening_in_progress = FALSE,
                                                      !.phq9_step = 0,
                                                      !.phq9_answers = <<>>,
                                                      !.phq9_answers_id = fresh_list(store, session_id)]],
                      response |-> main_return(CompletionReply(main_total(answers),
                                                               main_severity(main_total(answers))),
                                               FALSE, session_id) ]
               ELSE [ SESSIONS |-> [others EXCEPT ![session_id] =
                                      [session EXCEPT !.phq9_answers = answers, !.phq9_step = step]],
                      response |-> IF IndexInRange(step)
                                   THEN main_return(NextQuestionReply(QuestionAt(step)), FALSE, session_id)
                                   ELSE Unhandled("IndexError", session_id) ]

\* The same request, with the same draws and the same generated id, sent to both processes.
both_chat(session_id_in, message) ==
    \E session_id \in ResolveSessionId(session_id_in) :
        LET entered == setdefault(SESSIONS, session_id, default_session(SESSIONS, session_id))
            branch == Parsed[message].branch[entered[session_id].screening_in_progress]
        IN \E draw \in draws_for(branch) :
               LET flask == chat_result(SESSIONS, session_id, message, draw)
                   fastapi == main_chat(main_SESSIONS, session_id, message, draw)
               IN /\ request' = [ message |-> message, session_id |-> session_id_in ]
                  /\ SESSIONS' = flask.SESSIONS
                  /\ response' = flask.response
                  /\ main_SESSIONS' = fastapi.SESSIONS
                  /\ main_response' = fastapi.response
                  /\ UNCHANGED <<pc, frame>>

(***************************************************************************)
(* Specifications                                                          *)
(***************************************************************************)
EmptyStore == [ k \in {} |-> NewSession ]

Init ==
    /\ SESSIONS = EmptyStore
    /\ request = NoRequest
    /\ response = NoResponse
    /\ pc = [ t \in Threads |-> "idle" ]
    /\ frame = [ t \in Threads |-> IdleFrame ]
    /\ main_SESSIONS = [ k \in {} |-> NewSession ]
    /\ main_response = NoResponse

\* One client holding one session id, every kind of message, requests handled one at a time.
Next == \E m \in DialogueMessages : chat("s1", m)

Spec == Init /\ [][Next]_vars

\* One client running the questionnaire with every answer token.
NextScoring == \E m \in ScoringMessages : chat("s1", m)

SpecScoring == Init /\ [][NextScoring]_vars

\* The messages of concurrent answer submissions.
AnswerMessages == { MsgNotAtAllRaw, MsgNearlyEveryDay }

\* The store right after one client has started the questionnaire.
InitThreaded ==
    /\ \E started \in chat_results(EmptyStore, "s1", MsgPhq) :
          /\ SESSIONS = started.SESSIONS
          /\ response = started.response
    /\ request = [ message |-> MsgPhq, session_id |-> "s1" ]
    /\ pc = [ t \in Threads |-> "idle" ]
    /\ frame = [ t \in Threads |-> IdleFrame ]
    /\ main_SESSIONS = [ k \in {} |-> NewSession ]
    /\ main_response = NoResponse

\* NumThreads requests for that session, each an answer, served by concurrent threads.
NextThreaded ==
    \E t \in Threads :
        \/ \E m \in AnswerMessages : receive(t, "s1", m)
        \/ get_session(t)
        \/ check_motivational(t)
        \/ check_greeting(t)
        \/ check_screening(t)
        \/ load_answers(t)
        \/ append_answer(t)
        \/ read_step(t)
        \/ write_step(t)
        \/ check_complete(t)
        \/ next_question(t)

SpecThreaded == InitThreaded /\ [][NextThreaded]_vars

\* The messages of the several-client specification: a start, an answer, a crisis.
StoreMessages == { MsgPhq, MsgNotAtAllRaw, MsgWantToDie }

\* Several clients: one brings its own id, the others send none and resend the id they were given.
NextStore ==
    \E session_id_in \in {Absent, "s1"} \cup DOMAIN SESSIONS :
        \E m \in StoreMessages : chat(session_id_in, m)

SpecStore == Init /\ [][NextStore]_vars

\* Requests that follow the concurrent answers, handled one at a time.
FollowUpMessages == { MsgEmpty, MsgNotAtAllRaw }

AllReturned == \A t \in Threads : pc[t] = "done"

NextAfterRace ==
    \/ NextThreaded
    \/ AllReturned /\ \E m \in FollowUpMessages : chat("s1", m)

SpecAfterRace == InitThreaded /\ [][NextAfterRace]_vars

\* The store after the given requests of client s1, handled one at a time.
RECURSIVE after_calls(_, _)
after_calls(store, messages) ==
    IF messages = <<>> THEN store
    ELSE after_calls((CHOOSE result \in chat_results(store, "s1", Head(messages)) : TRUE).SESSIONS,
                     Tail(messages))

\* The client has started the questionnaire and answered seven questions; the eighth answer arrives.
InitRace ==
    /\ \E last \in chat_results(after_calls(EmptyStore, <<MsgPhq>> \o [i \in 1..7 |-> MsgNearlyEveryDay]),
                                "s1", MsgNearlyEveryDay) :
          /\ SESSIONS = last.SESSIONS
          /\ response = last.response
    /\ request = [ message |-> MsgNearlyEveryDay, session_id |-> "s1" ]
    /\ pc = [ t \in Threads |-> "idle" ]
    /\ frame = [ t \in Threads |-> IdleFrame ]
    /\ main_SESSIONS = [ k \in {} |-> NewSession ]
    /\ main_response = NoResponse

\* The messages of concurrent requests near the end of the questionnaire.
RaceMessages == { MsgNearlyEveryDay, MsgPhq, MsgWantToDie }

thread_step(t) ==
    \/ get_session(t)
    \/ set_escalated(t)
    \/ check_motivational(t)
    \/ check_greeting(t)
    \/ check_screening(t)
    \/ start_flag(t)
    \/ start_step(t)
    \/ start_answers(t)
    \/ reprompt(t)
    \/ load_answers(t)
    \/ append_answer(t)
    \/ read_step(t)
    \/ write_step(t)
    \/ check_complete(t)
    \/ sum_answers(t)
    \/ reset_flag(t)
    \/ reset_step(t)
    \/ reset_answers(t)
    \/ next_question(t)

NextRace ==
    \E t \in Threads :
        \/ \E m \in RaceMessages : receive(t, "s1", m)
        \/ thread_step(t)

SpecRace == InitRace /\ [][NextRace]_vars

\* One client holding a full dialogue under its own id, and clients without an id starting
\* the questionnaire; each request is sent to both transports.
NextTransports ==
    \/ \E m \in DialogueMessages : both_chat("s1", m)
    \/ both_chat(Absent, MsgPhq)

SpecTransports == Init /\ [][NextTransports]_vars

(***************************************************************************)
(* Vocabulary of the properties                                            *)
(***************************************************************************)
\* The session a request addresses, as the handler sees it on entry (created if unseen).
SessionBefore ==
    setdefault(SESSIONS, response'.session_id,
               [NewSession EXCEPT !.phq9_answers_id = SESSIONS'[response'.session_id].phq9_answers_id]
              )[response'.session_id]

SessionAfter == SESSIONS'[response'.session_id]

\* What the classifiers say of each request body, evaluated once per message.
Intent ==
    [ message \in Messages |->
        LET text == Strip(message)
        IN [ crisis |-> detect_crisis(text),
             motivational |-> is_motivational(Lower(text)),
             greeting |-> is_greeting(text),
             screening_start |-> is_screening_start(Lower(text)),
             valid_answer |-> Lower(text) \in DOMAIN SCORE_MAP,
             token |-> Lower(text) ] ]

CallIsCrisis == Intent[request'.message].crisis

CallIsMotivational == Intent[request'.message].motivational

CallIsGreeting == Intent[request'.message].greeting

CallIsScreeningStart == Intent[request'.message].screening_start

CallIsValidAnswer == Intent[request'.message].valid_answer

CallToken == Intent[request'.message].token

Screening(session, k) ==
    /\ session.screening_in_progress
    /\ session.phq9_step = k
    /\ Len(session.phq9_answers) = k

Idle(session) ==
    /\ ~session.screening_in_progress
    /\ session.phq9_step = 0
    /\ session.phq9_answers = <<>>

TheSession == SESSIONS["s1"]

HasSession == "s1" \in DOMAIN SESSIONS

(***************************************************************************)
(* C1 - Crisis preemption: in every session state (IDLE or SCREENING(k)),  *)
(* a call whose message matches a crisis pattern returns the fixed crisis  *)
(* reply with escalate = true, sets escalated, and leaves                  *)
(* screening_in_progress, phq9_step and phq9_answers as they were.         *)
(***************************************************************************)
CrisisPreemptionStep ==
    CallIsCrisis =>
        /\ response' = jsonify(CrisisReply, TRUE, response'.session_id)
        /\ SessionAfter.escalated
        /\ SessionAfter.screening_in_progress = SessionBefore.screening_in_progress
        /\ SessionAfter.phq9_step = SessionBefore.phq9_step
        /\ SessionAfter.phq9_answers = SessionBefore.phq9_answers

CrisisPreemption == [][CrisisPreemptionStep]_vars

CrisisPreemptionWitness ==
    /\ HasSession
    /\ response.reply.kind = "crisis"
    /\ response.escalate
    /\ request.message = MsgSelfHarmTest
    /\ Screening(TheSession, 8)
    /\ TheSession.escalated

(***************************************************************************)
(* C2 - Completion scoring and reset: nine valid answer tokens submitted   *)
(* one call at a time from SCREENING(0) are recorded in order, the ninth   *)
(* call reports the sum of SCORE_MAP[token] over exactly those nine tokens *)
(* and leaves the session IDLE with phq9_step = 0 and phq9_answers = [].   *)
(***************************************************************************)
TokenTotal(tokens) ==
    LET prefix[i \in 0..Len(tokens)] ==
            IF i = 0 THEN 0 ELSE prefix[i - 1] + SCORE_MAP[tokens[i]]
    IN prefix[Len(tokens)]

CompletionScoringStep ==
    (SessionBefore.screening_in_progress /\ CallIsValidAnswer /\ ~CallIsCrisis) =>
        LET submitted == Append(SessionBefore.phq9_answers, CallToken)
        IN IF Len(submitted) < 9
           THEN /\ Screening(SessionAfter, Len(submitted))
                /\ SessionAfter.phq9_answers = submitted
           ELSE /\ Len(submitted) = 9
                /\ response'.status = 200
                /\ response'.reply.kind = "complete"
                /\ response'.reply.score = TokenTotal(submitted)
                /\ Idle(SessionAfter)

CompletionScoring == [][CompletionScoringStep]_vars

CompletionScoringWitness ==
    /\ HasSession
    /\ response.reply.kind = "complete"
    /\ response.reply.score = 26
    /\ request.message = MsgMoreThanHalf
    /\ Idle(TheSession)

(***************************************************************************)
(* C3 - Severity banding: a completion reply carries a total in 0..27 and  *)
(* the label of the one band that contains it: 0-4 minimal or no           *)
(* depression, 5-9 mild, 10-14 moderate, 15-19 moderately severe,          *)
(* 20-27 severe.                                                           *)
(***************************************************************************)
Bands ==
    { [ low |-> 0,  high |-> 4,  label |-> "minimal or no depression" ],
      [ low |-> 5,  high |-> 9,  label |-> "mild depression symptoms" ],
      [ low |-> 10, high |-> 14, label |-> "moderate depression symptoms" ],
      [ low |-> 15, high |-> 19, label |-> "moderately severe depression symptoms" ],
      [ low |-> 20, high |-> 27, label |-> "severe depression symptoms" ] }

SeverityBanding ==
    response.reply.kind = "complete" =>
        /\ response.reply.score \in 0..27
        /\ \E band \in Bands :
              /\ response.reply.score \in band.low..band.high
              /\ response.reply.severity = band.label
              /\ \A other \in Bands \ {band} : response.reply.score \notin other.low..other.high

SeverityBandingWitness ==
    /\ response.reply.kind = "complete"
    /\ response.reply.score = 20
    /\ response.reply.severity = "severe depression symptoms"

(***************************************************************************)
(* C4 - Invalid answer is a no-op on state: in SCREENING(k) a non-crisis   *)
(* message whose trimmed, lower-cased form is not a key of SCORE_MAP       *)
(* (the empty message included) leaves the session as it was and returns   *)
(* a re-prompt of question k with escalate = false, each time it is sent.  *)
(***************************************************************************)
InvalidAnswerStep ==
    (SessionBefore.screening_in_progress /\ ~CallIsCrisis /\ ~CallIsValidAnswer) =>
        /\ SessionAfter = SessionBefore
        /\ response' = jsonify(RepromptReply(PHQ9_QUESTIONS[SessionBefore.phq9_step + 1]),
                               FALSE, response'.session_id)

InvalidAnswerNoOp == [][InvalidAnswerStep]_vars

InvalidAnswerNoOpWitness ==
    /\ HasSession
    /\ request.message = MsgEmpty
    /\ response.reply.kind = "reprompt"
    /\ response.reply.question = PHQ9_QUESTIONS[6]
    /\ ~response.escalate
    /\ Screening(TheSession, 5)

(***************************************************************************)
(* C6 - Idle invariant: with requests handled one at a time, a session     *)
(* whose screening_in_progress is false has phq9_step = 0 and no answers.  *)
(***************************************************************************)
IdleInvariant ==
    \A id \in DOMAIN SESSIONS :
        ~SESSIONS[id].screening_in_progress =>
            SESSIONS[id].phq9_step = 0 /\ Len(SESSIONS[id].phq9_answers) = 0

IdleInvariantWitness ==
    /\ HasSession
    /\ response.reply.kind = "complete"
    /\ ~TheSession.screening_in_progress
    /\ TheSession.phq9_step = 0

(***************************************************************************)
(* C7 - Screening invariant: with requests handled one at a time, a        *)
(* session whose screening_in_progress is true has                         *)
(* len(phq9_answers) = phq9_step and 0 <= phq9_step < 9.                   *)
(***************************************************************************)
ScreeningInvariant ==
    \A id \in DOMAIN SESSIONS :
        SESSIONS[id].screening_in_progress =>
            /\ Len(SESSIONS[id].phq9_answers) = SESSIONS[id].phq9_step
            /\ 0 <= SESSIONS[id].phq9_step
            /\ SESSIONS[id].phq9_step < 9

ScreeningInvariantWitness ==
    /\ HasSession
    /\ response.reply.kind = "next"
    /\ TheSession.screening_in_progress
    /\ TheSession.phq9_step = 8
    /\ Len(TheSession.phq9_answers) = 8

(***************************************************************************)
(* C8 - Sticky escalation: once escalated is true it stays true whatever   *)
(* calls follow, and it turns true only in a call whose message matches a  *)
(* crisis pattern (it is false from creation until then).                  *)
(***************************************************************************)
StickyEscalationStep ==
    /\ \A id \in DOMAIN SESSIONS :
          SESSIONS[id].escalated => (id \in DOMAIN SESSIONS' /\ SESSIONS'[id].escalated)
    /\ \A id \in DOMAIN SESSIONS' :
          (SESSIONS'[id].escalated /\ ~(id \in DOMAIN SESSIONS /\ SESSIONS[id].escalated))
              => (CallIsCrisis /\ response'.session_id = id)

StickyEscalation == [][StickyEscalationStep]_vars

StickyEscalationWitness ==
    /\ HasSession
    /\ TheSession.escalated
    /\ response.reply.kind = "complete"
    /\ Idle(TheSession)

(***************************************************************************)
(* C9 - Priority cascade when IDLE: a non-crisis message takes the first   *)
(* matching branch in the order motivational, greeting, screening-start,   *)
(* general chat; a motivational or greeting reply does not start screening.*)
(***************************************************************************)
BranchTaken(resp) ==
    IF resp.reply.kind = "GeneratorError" THEN "general" ELSE resp.reply.kind

FirstMatching ==
    IF CallIsMotivational THEN "motivational"
    ELSE IF CallIsGreeting THEN "greeting"
    ELSE IF CallIsScreeningStart THEN "start"
    ELSE "general"

PriorityCascadeStep ==
    (~SessionBefore.screening_in_progress /\ ~CallIsCrisis) =>
        /\ BranchTaken(response') = FirstMatching
        /\ (FirstMatching \in {"motivational", "greeting"} => Idle(SessionAfter))

PriorityCascade == [][PriorityCascadeStep]_vars

PriorityCascadeWitness ==
    /\ HasSession
    /\ request.message = MsgHeyLostHope
    /\ Intent[request.message].motivational
    /\ Intent[request.message].greeting
    /\ response.reply.kind = "motivational"
    /\ Idle(TheSession)

(***************************************************************************)
(* C10 - Screening start: in an IDLE session a message with a              *)
(* screening-start keyword that is not a crisis, motivational or greeting  *)
(* message moves the session to SCREENING(0) and returns the intro line,   *)
(* question[0] and the answer-format hint with escalate = false.           *)
(***************************************************************************)
ScreeningStartStep ==
    (/\ ~SessionBefore.screening_in_progress
     /\ CallIsScreeningStart
     /\ ~CallIsCrisis /\ ~CallIsMotivational /\ ~CallIsGreeting) =>
        /\ SessionAfter.screening_in_progress
        /\ SessionAfter.phq9_step = 0
        /\ SessionAfter.phq9_answers = <<>>
        /\ response' = jsonify(StartReply(PHQ9_QUESTIONS[1]), FALSE, response'.session_id)

ScreeningStart == [][ScreeningStartStep]_vars

ScreeningStartWitness ==
    /\ HasSession
    /\ request.message = MsgContest
    /\ response.reply.kind = "start"
    /\ response.reply.question = PHQ9_QUESTIONS[1]
    /\ ~response.escalate
    /\ Screening(TheSession, 0)

(***************************************************************************)
(* C5 - Concurrent answers are not lost: when NumThreads concurrent calls  *)
(* for a session that has just entered screening, each submitting a valid  *)
(* answer token, have all returned, phq9_step = NumThreads and             *)
(* phq9_answers holds exactly the submitted tokens, each once.             *)
(***************************************************************************)
Occurrences(token, tokens) == Cardinality({ i \in 1..Len(tokens) : tokens[i] = token })

Submitted(token) == Cardinality({ t \in Threads : Intent[frame[t].message].token = token })

ConcurrentAnswersKept ==
    (\A t \in Threads : pc[t] = "done") =>
        /\ TheSession.phq9_step = NumThreads
        /\ Len(TheSession.phq9_answers) = NumThreads
        /\ \A token \in DOMAIN SCORE_MAP :
              Occurrences(token, TheSession.phq9_answers) = Submitted(token)

(***************************************************************************)
(* C11 - Random-reply branches are state-neutral: in an IDLE session the   *)
(* motivational branch returns a member of MOTIVATIONAL_MESSAGES and the   *)
(* greeting branch a member of friendly_replies, both with                 *)
(* escalate = false, and whichever candidate is drawn every field of the   *)
(* session is unchanged, so the session stays IDLE.                        *)
(***************************************************************************)
Members(list) == { list[i] : i \in 1..Len(list) }

RandomReplyStep ==
    (~SessionBefore.screening_in_progress /\ ~CallIsCrisis
        /\ (CallIsMotivational \/ CallIsGreeting)) =>
        /\ response'.status = 200
        /\ ~response'.escalate
        /\ IF CallIsMotivational
           THEN response'.reply.text \in Members(MOTIVATIONAL_MESSAGES)
           ELSE response'.reply.text \in Members(friendly_replies)
        /\ SessionAfter = SessionBefore
        /\ Idle(SessionAfter)

RandomReplyNeutral == [][RandomReplyStep]_vars

RandomReplyNeutralWitness ==
    /\ HasSession
    /\ request.message = MsgHi
    /\ response.reply.kind = "greeting"
    /\ response.reply.text = friendly_replies[3]
    /\ TheSession.escalated
    /\ Idle(TheSession)

(***************************************************************************)
(* C12 - Generator failure is contained: when the external reply generator *)
(* fails in the general-chat branch, the call still returns a reply        *)
(* descriptor (a fallback reply, escalate = false, the session id); the    *)
(* failure never leaves the handler as an unhandled fault.                 *)
(***************************************************************************)
GeneratorFailureContained ==
    /\ response.reply.kind # "GeneratorError"
    /\ (request # NoRequest /\ ~Intent[request.message].crisis) =>
           (response.status = 200 /\ ~response.escalate)

(***************************************************************************)
(* C13 - Session identity and lazy creation: a call with no session id     *)
(* gets a new identifier back; a call with an id not yet in the store      *)
(* creates a session from the defaults (not screening, step 0, no          *)
(* answers, not escalated) before the branch acts on it; the id in the     *)
(* reply is the id of the one session the call created or used; a call     *)
(* with a stored id continues from the stored state.                       *)
(***************************************************************************)
SessionIdentityStep ==
    LET id == response'.session_id
    IN /\ id # Absent
       /\ DOMAIN SESSIONS' = DOMAIN SESSIONS \cup {id}
       /\ IF request'.session_id = Absent
          THEN id \notin DOMAIN SESSIONS
          ELSE id = request'.session_id
       /\ id \notin DOMAIN SESSIONS =>
             /\ SessionAfter.escalated = CallIsCrisis
             /\ SessionAfter.screening_in_progress = (~CallIsCrisis /\ FirstMatching = "start")
             /\ SessionAfter.phq9_step = 0
             /\ SessionAfter.phq9_answers = <<>>
       /\ id \in DOMAIN SESSIONS =>
             /\ SessionAfter.escalated = (SESSIONS[id].escalated \/ CallIsCrisis)
             /\ (SESSIONS[id].screening_in_progress /\ CallIsCrisis) =>
                   /\ SessionAfter.screening_in_progress
                   /\ SessionAfter.phq9_step = SESSIONS[id].phq9_step
                   /\ SessionAfter.phq9_answers = SESSIONS[id].phq9_answers
             /\ (SESSIONS[id].screening_in_progress /\ ~CallIsCrisis /\ CallIsValidAnswer
                    /\ SESSIONS[id].phq9_step < 8) =>
                   /\ SessionAfter.screening_in_progress
                   /\ SessionAfter.phq9_answers = Append(SESSIONS[id].phq9_answers, CallToken)

NoSharedLists ==
    \A k1 \in DOMAIN SESSIONS : \A k2 \in DOMAIN SESSIONS :
        k1 # k2 => SESSIONS[k1].phq9_answers_id # SESSIONS[k2].phq9_answers_id

SessionIsolationStep ==
    /\ \A k \in DOMAIN SESSIONS :
          /\ k \in DOMAIN SESSIONS'
          /\ k # response'.session_id => SESSIONS'[k] = SESSIONS[k]
    /\ NoSharedLists'

SessionIsolation == [][SessionIsolationStep]_vars

SessionIsolationWitness ==
    /\ DOMAIN SESSIONS = {"s1", "uuid-1", "uuid-2"}
    /\ request.session_id = "uuid-1"
    /\ response.reply.kind = "next"
    /\ Screening(SESSIONS["s1"], 3)
    /\ Screening(SESSIONS["uuid-1"], 1)
    /\ Idle(SESSIONS["uuid-2"])

(***************************************************************************)
(* C14 - Branches are selected by state: while a session is screening, a   *)
(* non-crisis message never takes the motivational, greeting,              *)
(* screening-start or general-chat branch (it is an answer or an invalid   *)
(* answer, and the generator is not called); while a session is IDLE, a    *)
(* valid answer token never changes phq9_step or phq9_answers.             *)
(***************************************************************************)
BranchByStateStep ==
    /\ (SessionBefore.screening_in_progress /\ ~CallIsCrisis) =>
          /\ response'.reply.kind \in {"reprompt", "next", "complete"}
          /\ response'.reply.generated = <<>>
          /\ ~CallIsValidAnswer => response'.reply.kind = "reprompt"
    /\ (~SessionBefore.screening_in_progress /\ CallIsValidAnswer) =>
          /\ SessionAfter.phq9_step = SessionBefore.phq9_step
          /\ SessionAfter.phq9_answers = SessionBefore.phq9_answers
          /\ response'.reply.kind \notin {"reprompt", "next", "complete"}

BranchByState == [][BranchByStateStep]_vars

BranchByStateWitness ==
    /\ HasSession
    /\ request.message = MsgDiscouragedPhq
    /\ response.reply.kind = "reprompt"
    /\ Screening(TheSession, 4)

(***************************************************************************)
(* C15 - Question order: with calls handled one at a time, the question in *)
(* a reply has the index of the number of valid answers accepted since the *)
(* screening started: the start reply shows question[0], the reply to the  *)
(* j-th valid answer (1 <= j <= 8) shows question[j], a re-prompt shows    *)
(* the unanswered question[phq9_step].                                     *)
(***************************************************************************)
QuestionOrderStep ==
    /\ response'.reply.kind = "start" =>
          /\ SessionAfter.phq9_answers = <<>>
          /\ response'.reply.question = PHQ9_QUESTIONS[1]
    /\ response'.reply.kind = "next" =>
          /\ SessionAfter.phq9_answers = Append(SessionBefore.phq9_answers, CallToken)
          /\ Len(SessionAfter.phq9_answers) \in 1..8
          /\ response'.reply.question = PHQ9_QUESTIONS[Len(SessionAfter.phq9_answers) + 1]
    /\ response'.reply.kind = "reprompt" =>
          /\ SessionAfter.phq9_answers = SessionBefore.phq9_answers
          /\ SessionAfter.phq9_step = Len(SessionAfter.phq9_answers)
          /\ response'.reply.question = PHQ9_QUESTIONS[SessionAfter.phq9_step + 1]
    /\ response'.reply.kind \notin {"start", "next", "reprompt"} =>
          response'.reply.question = ""

QuestionOrder == [][QuestionOrderStep]_vars

QuestionOrderWitness ==
    /\ HasSession
    /\ response.reply.kind = "next"
    /\ response.reply.question = PHQ9_QUESTIONS[9]
    /\ Len(TheSession.phq9_answers) = 8

(***************************************************************************)
(* C16 - Completion happens exactly at the ninth valid answer: a call      *)
(* produces the completion reply if and only if it supplies the ninth      *)
(* valid answer since the screening started; crisis messages and invalid   *)
(* answers in between neither count, nor abort the screening, nor change   *)
(* the answers that are summed, and every valid answer advances by one, so *)
(* nine valid answers always reach completion.                             *)
(***************************************************************************)
NinthAnswerStep ==
    /\ (response'.reply.kind = "complete") <=>
          (/\ SessionBefore.screening_in_progress
           /\ ~CallIsCrisis /\ CallIsValidAnswer
           /\ Len(SessionBefore.phq9_answers) = 8)
    /\ response'.reply.kind = "complete" =>
          response'.reply.score = TokenTotal(Append(SessionBefore.phq9_answers, CallToken))
    /\ (SessionBefore.screening_in_progress /\ (CallIsCrisis \/ ~CallIsValidAnswer)) =>
          /\ SessionAfter.screening_in_progress
          /\ SessionAfter.phq9_answers = SessionBefore.phq9_answers
          /\ SessionAfter.phq9_step = SessionBefore.phq9_step
    /\ (SessionBefore.screening_in_progress /\ ~CallIsCrisis /\ CallIsValidAnswer
           /\ Len(SessionBefore.phq9_answers) < 8) =>
          /\ SessionAfter.screening_in_progress
          /\ SessionAfter.phq9_answers = Append(SessionBefore.phq9_answers, CallToken)

NinthAnswer == [][NinthAnswerStep]_vars

NinthAnswerWitness ==
    /\ HasSession
    /\ response.reply.kind = "complete"
    /\ response.reply.score = 24
    /\ TheSession.escalated
    /\ Idle(TheSession)

(***************************************************************************)
(* C20 - The escalate flag of a reply depends only on the current message: *)
(* a reply has escalate = true exactly when the message matches a crisis   *)
(* pattern, and a session whose escalated flag is set gets the replies and *)
(* the transitions of a never-escalated session in the same screening      *)
(* state.                                                                  *)
(***************************************************************************)
WithEscalated(session, flag) == [session EXCEPT !.escalated = flag]

\* What the handler makes of the same request when the session has never been escalated.
NeverEscalatedResults ==
    chat_results([SESSIONS EXCEPT ![response'.session_id].escalated = FALSE],
                 response'.session_id, request'.message)

EscalateByMessageStep ==
    /\ response'.status = 200 => (response'.escalate <=> CallIsCrisis)
    /\ (response'.session_id \in DOMAIN SESSIONS /\ SESSIONS[response'.session_id].escalated) =>
          \E twin \in NeverEscalatedResults :
              /\ response' = twin.response
              /\ WithEscalated(SessionAfter, FALSE) =
                     WithEscalated(twin.SESSIONS[response'.session_id], FALSE)

EscalateByMessage == [][EscalateByMessageStep]_vars

EscalateByMessageWitness ==
    /\ HasSession
    /\ TheSession.escalated
    /\ request.message = MsgThis
    /\ response.reply.kind = "general"
    /\ ~response.escalate
    /\ Idle(TheSession)

(***************************************************************************)
(* C17 - Corruption guard: a call that finds a screening session whose     *)
(* len(phq9_answers) differs from phq9_step (or whose step is outside      *)
(* 0..8) resets the session to IDLE instead of continuing with it.         *)
(***************************************************************************)
Corrupted(session) ==
    /\ session.screening_in_progress
    /\ \/ Len(session.phq9_answers) # session.phq9_step
       \/ session.phq9_step \notin 0..8

CorruptionGuardStep ==
    (AllReturned /\ pc' = pc /\ Corrupted(TheSession)) => Idle(SESSIONS'["s1"])

CorruptionGuard == [][CorruptionGuardStep]_vars

(***************************************************************************)
(* C18 - Bounds under concurrency: under every interleaving of concurrent  *)
(* calls for one session in the threaded handler, PHQ9_QUESTIONS is always *)
(* read at an index in 0..8 (no call fails with an IndexError) and every   *)
(* completion total is summed over exactly 9 answers, hence within 0..27.  *)
(***************************************************************************)
BoundsUnderConcurrency ==
    /\ response.reply.kind # "IndexError"
    /\ \A t \in Threads :
          pc[t] = "sum_answers" => Len(SESSIONS[frame[t].session_id].phq9_answers) = 9
    /\ response.reply.kind = "complete" => response.reply.score \in 0..27

(***************************************************************************)
(* C21 - Transport equivalence: when the same sequence of (message,        *)
(* session id) calls is processed one at a time by the handler of app.py   *)
(* and by the handler of main.py, with the same random choices, the same   *)
(* generated ids and the same generator outcomes, then after every call    *)
(* both have taken the same branch and returned the same reply, escalate   *)
(* flag and session id, and both session stores are in the same state.     *)
(***************************************************************************)
TransportsEquivalent ==
    /\ DOMAIN main_SESSIONS = DOMAIN SESSIONS
    /\ \A session_id \in DOMAIN SESSIONS : main_SESSIONS[session_id] = SESSIONS[session_id]
    /\ main_response.status = response.status
    /\ main_response.reply.kind = response.reply.kind
    /\ main_response.reply = response.reply
    /\ main_response.escalate = response.escalate
    /\ main_response.session_id = response.session_id

\* Both transports have just closed a questionnaire on the upper edge of the mild band,
\* while another client's session sits in the store.
TransportsEquivalentWitness ==
    /\ request.session_id = "s1"
    /\ response.reply.kind = "complete"
    /\ main_response.reply.kind = "complete"
    /\ response.reply.score = 9
    /\ main_response.reply.severity = "mild depression symptoms"
    /\ "s1" \in DOMAIN main_SESSIONS
    /\ ~main_SESSIONS["s1"].screening_in_progress
    /\ main_SESSIONS["s1"].escalated
    /\ \E other \in DOMAIN main_SESSIONS \ {"s1"} : main_SESSIONS[other].screening_in_progress

====
